---- MODULE Spec2Model ----
(***************************************************************************)
(* Model of the ServiceNowScanner component (src/unnamed/part_001): the    *)
(* connection test, the stale-ownership scan with its simulated progress,  *)
(* and the result explorer (risk filter, pagination, expansion state).     *)
(*                                                                         *)
(* React state is modelled by one variable per useState hook.  A handler   *)
(* is one action; the useEffect on [scanResults] runs as part of every     *)
(* action that replaces scanResults, as React runs it before the next      *)
(* event is handled.  The JSX conditions that decide whether a control is  *)
(* rendered (and enabled) are the guards of the Click... actions.          *)
(***************************************************************************)
EXTENDS Integers, Sequences, FiniteSets, TLC

VARIABLES
    formData,            \* useState({instanceUrl, username, password})
    connectionStatus,    \* useState(null)
    isConnecting,        \* useState(false)
    isScanning,          \* useState(false)
    scanResults,         \* useState(null)
    scanProgress,        \* useState(0)
    expandedCI,          \* useState(null)
    currentPage,         \* useState(1)
    expandedAlternates,  \* useState(new Set())
    activeFilter,        \* useState('all')
    showGroupedView,     \* useState(false)
    testRequest,         \* position of testConnection: "none" | "sent"
    scanRequest,         \* position of scanStaleOwnership: "none" | "sent" | "ok" | "notok"
    progressInterval,    \* the running scan's setInterval timer is live
    leakedIntervals,     \* timers of earlier scans that were never cleared
    lastCall             \* CallSpec only: the handler called last, its argument and
                         \* the explorer's state when it was called

envVars == <<formData, connectionStatus, isConnecting, testRequest>>
scanVars == <<isScanning, scanProgress, scanRequest, progressInterval, leakedIntervals>>
explorerVars == <<expandedCI, currentPage, expandedAlternates, activeFilter>>
vars == <<formData, connectionStatus, isConnecting, isScanning, scanResults,
          scanProgress, expandedCI, currentPage, expandedAlternates, activeFilter,
          testRequest, scanRequest, progressInterval, leakedIntervals, lastCall,
          showGroupedView>>

(***************************************************************************)
(* Bounds of the model.                                                    *)
(***************************************************************************)
\* The largest scan result fills MaxPages pages (the last one with one CI).
MaxPages == 6
\* Timers left running by failed scans are counted up to this many.
MaxLeakedIntervals == 1
\* The largest result held in PagerSpec fills this many pages.
MaxPagerPages == 12

(***************************************************************************)
(* Program constants.                                                      *)
(***************************************************************************)
itemsPerPage == 50
\* null, for expandedCI; ci_id values are the positive integers.
Null == 0

Min(a, b) == IF a < b THEN a ELSE b
Max(a, b) == IF a > b THEN a ELSE b

(***************************************************************************)
(* Scan payloads.  A CI is its ci_id, its risk_level as the service sent   *)
(* it (any letter case; "" stands for a missing or empty risk_level,       *)
(* "Unknown" for a level that is none of the four) and its                 *)
(* recommended_owners.                                                     *)
(***************************************************************************)
RiskOf(i) ==
    CASE i % 4 = 1 -> "High"
      [] i % 4 = 3 -> "HIGH"
      [] i % 8 = 0 -> "Critical"
      [] i % 8 = 4 -> "critical"
      [] i % 8 = 2 -> "Medium"
      [] i % 16 = 6 -> "Low"
      [] OTHER     -> IF i % 32 = 14 THEN "Unknown" ELSE ""

\* Only the first CI of each of the first two pages has recommended owners.
RecsOf(i) ==
    CASE i = 1 ->
           << [username |-> "alice", score |-> 90], [username |-> "bob", score |-> 40] >>
      [] i = itemsPerPage + 1 -> << [username |-> "bob", score |-> 70] >>
      [] OTHER -> << >>

CI(i) == [ci_id |-> i, risk_level |-> RiskOf(i), recommended_owners |-> RecsOf(i)]

\* grouped_by_owners of a result of n CIs: one group for each recommended
\* owner who comes first for a CI, with the CIs to assign to that owner.
GroupsOf(n) ==
    (IF n >= 1
     THEN << [username |-> "alice", total_cis |-> 1, cis_to_assign |-> << CI(1) >>] >>
     ELSE << >>)
    \o (IF n >= itemsPerPage + 1
        THEN << [username |-> "bob", total_cis |-> 1,
                 cis_to_assign |-> << CI(itemsPerPage + 1) >>] >>
        ELSE << >>)

\* String.prototype.toLowerCase on the risk levels that occur.
toLowerCase(s) ==
    CASE s = "Critical" -> "critical"
      [] s = "High"     -> "high"
      [] s = "HIGH"     -> "high"
      [] s = "Medium"   -> "medium"
      [] s = "Low"      -> "low"
      [] s = "Unknown"  -> "unknown"
      [] OTHER          -> s

\* scanResults === null
NullResults ==
    [isNull |-> TRUE, hasError |-> FALSE, error |-> "",
     hasStaleCis |-> FALSE, stale_cis |-> << >>, grouped_by_owners |-> << >>]

\* { error: message }
ErrorResults(message) ==
    [isNull |-> FALSE, hasError |-> TRUE, error |-> message,
     hasStaleCis |-> FALSE, stale_cis |-> << >>, grouped_by_owners |-> << >>]

\* { summary, stale_cis: [n CIs], grouped_by_owners: [...] }
StaleResults(n) ==
    [isNull |-> FALSE, hasError |-> FALSE, error |-> "",
     hasStaleCis |-> TRUE, stale_cis |-> [i \in 1..n |-> CI(i)],
     grouped_by_owners |-> GroupsOf(n)]

\* A success body that carries no stale_cis array.
NoListResults ==
    [isNull |-> FALSE, hasError |-> FALSE, error |-> "",
     hasStaleCis |-> FALSE, stale_cis |-> << >>, grouped_by_owners |-> << >>]

\* A success body that carries an error field holding the empty string
\* next to its data: { error: "", stale_cis: [1 CI], grouped_by_owners }.
EmptyErrorResults ==
    [isNull |-> FALSE, hasError |-> TRUE, error |-> "",
     hasStaleCis |-> TRUE, stale_cis |-> [i \in 1..1 |-> CI(i)],
     grouped_by_owners |-> GroupsOf(1)]

\* A success body whose grouped_by_owners does not follow its stale_cis:
\* CI 1, whose first recommended owner is alice, is listed under bob.
MisgroupedResults ==
    [isNull |-> FALSE, hasError |-> FALSE, error |-> "",
     hasStaleCis |-> TRUE, stale_cis |-> [i \in 1..1 |-> CI(i)],
     grouped_by_owners |->
        << [username |-> "bob", total_cis |-> 1, cis_to_assign |-> << CI(1) >>] >>]

ResultSizes ==
    {0, 1, itemsPerPage - 1, itemsPerPage, itemsPerPage + 1,
     2 * itemsPerPage, 2 * itemsPerPage + 1, (MaxPages - 1) * itemsPerPage + 1}

ScanBodies ==
    {StaleResults(n) : n \in ResultSizes}
        \cup {NoListResults, EmptyErrorResults, MisgroupedResults}

ScanErrors == {"Scan failed. Please try again.", "Authentication failed"}

FilterCategory == {"all", "critical", "high", "medium", "low"}

\* The summary cards that carry a filter.
CardFilters == {"all", "critical", "high"}

FieldNames == {"instanceUrl", "username", "password"}

NullStatus == [isNull |-> TRUE, success |-> FALSE, message |-> ""]
Status(ok, msg) == [isNull |-> FALSE, success |-> ok, message |-> msg]

(***************************************************************************)
(* Derivations of the result explorer.                                     *)
(***************************************************************************)
\* The comparison without toLowerCase().
getFilteredCIs_CaseSensitive ==
    IF scanResults.isNull \/ ~scanResults.hasStaleCis THEN << >>
    ELSE IF activeFilter = "all" THEN scanResults.stale_cis
    ELSE SelectSeq(scanResults.stale_cis,
                   LAMBDA ci : ci.risk_level = activeFilter)

\* A CI without a risk_level passing every category.
getFilteredCIs_MissingMatches ==
    IF scanResults.isNull \/ ~scanResults.hasStaleCis THEN << >>
    ELSE IF activeFilter = "all" THEN scanResults.stale_cis
    ELSE SelectSeq(scanResults.stale_cis,
                   LAMBDA ci : \/ ci.risk_level = ""
                               \/ toLowerCase(ci.risk_level) = activeFilter)

getFilteredCIs ==
    IF scanResults.isNull \/ ~scanResults.hasStaleCis THEN << >>
    ELSE IF activeFilter = "all" THEN scanResults.stale_cis
    ELSE SelectSeq(scanResults.stale_cis,
                   LAMBDA ci : toLowerCase(ci.risk_level) = activeFilter)

\* Array.prototype.slice(start, end) with 0 <= start <= end.
slice(items, startIndex, endIndex) ==
    SubSeq(items, startIndex + 1, Min(endIndex, Len(items)))

\* The slice taken one item too long.
PageSlice_InclusiveEnd(items, page) ==
    LET startIndex == (page - 1) * itemsPerPage
        endIndex   == startIndex + itemsPerPage + 1
    IN  slice(items, startIndex, endIndex)

PageSlice(items, page) ==
    LET startIndex == (page - 1) * itemsPerPage
        endIndex   == startIndex + itemsPerPage
    IN  slice(items, startIndex, endIndex)

\* The page cut out of the whole list instead of the filtered one.
getPaginatedCIs_Unfiltered == PageSlice(scanResults.stale_cis, currentPage)

getPaginatedCIs == PageSlice(getFilteredCIs, currentPage)

\* Rounding down and adding one, instead of rounding up.
ceilDiv_FloorPlusOne(n, d) == (n \div d) + 1

\* Math.ceil(n / d) for n >= 0, d > 0.
ceilDiv(n, d) == IF n % d = 0 THEN n \div d ELSE (n \div d) + 1

TotalPagesOf(items) ==
    IF Len(items) = 0 THEN 0 ELSE ceilDiv(Len(items), itemsPerPage)

getTotalPages == TotalPagesOf(getFilteredCIs)

(***************************************************************************)
(* useEffect(..., [scanResults]): runs when scanResults is replaced by a   *)
(* value that is not the same object.  Every non-null value is a fresh     *)
(* object; null replaced by null is no change.                             *)
(***************************************************************************)
ResultsChanged(old, new) == ~(old.isNull /\ new.isNull)

\* The effect without setActiveFilter('all').
ResetOnNewResults_KeepFilter ==
    /\ currentPage' = 1
    /\ expandedCI' = Null
    /\ expandedAlternates' = {}
    /\ UNCHANGED activeFilter

ResetOnNewResults ==
    /\ currentPage' = 1
    /\ expandedCI' = Null
    /\ expandedAlternates' = {}
    /\ activeFilter' = "all"

(***************************************************************************)
(* Handlers of the explorer.                                               *)
(***************************************************************************)
\* toggleCIExpansion that also closes the alternates panels.
toggleCIExpansion_ClearsAlternates(ciId) ==
    /\ expandedCI' = (IF expandedCI = ciId THEN Null ELSE ciId)
    /\ expandedAlternates' = {}
    /\ UNCHANGED <<currentPage, activeFilter>>

\* toggleCIExpansion that never collapses: setExpandedCI(ciId).
toggleCIExpansion_NeverCollapses(ciId) ==
    /\ expandedCI' = ciId
    /\ UNCHANGED <<currentPage, expandedAlternates, activeFilter>>

toggleCIExpansion(ciId) ==
    /\ expandedCI' = (IF expandedCI = ciId THEN Null ELSE ciId)
    /\ UNCHANGED <<currentPage, expandedAlternates, activeFilter>>

\* setFilter without setExpandedAlternates(new Set()).
setFilter_KeepAlternates(filter) ==
    /\ activeFilter' = filter
    /\ currentPage' = 1
    /\ expandedCI' = Null
    /\ UNCHANGED expandedAlternates

\* setFilter without setCurrentPage(1).
setFilter_KeepPage(filter) ==
    /\ activeFilter' = filter
    /\ expandedCI' = Null
    /\ expandedAlternates' = {}
    /\ UNCHANGED currentPage

setFilter(filter) ==
    /\ activeFilter' = filter
    /\ currentPage' = 1
    /\ expandedCI' = Null
    /\ expandedAlternates' = {}

\* goToPage without setExpandedCI(null).
goToPage_KeepExpanded(page) ==
    /\ currentPage' = page
    /\ UNCHANGED <<expandedCI, expandedAlternates, activeFilter>>

goToPage(page) ==
    /\ currentPage' = page
    /\ expandedCI' = Null
    /\ UNCHANGED <<expandedAlternates, activeFilter>>

\* goToNextPage guarded by <= instead of <.
goToNextPage_OffByOne ==
    IF currentPage <= getTotalPages
    THEN goToPage(currentPage + 1)
    ELSE UNCHANGED explorerVars

goToNextPage ==
    IF currentPage < getTotalPages
    THEN goToPage(currentPage + 1)
    ELSE UNCHANGED explorerVars

goToPrevPage ==
    IF currentPage > 1
    THEN goToPage(currentPage - 1)
    ELSE UNCHANGED explorerVars

\* toggleAlternateRecommendations that only adds: the delete branch is lost.
toggleAlternateRecommendations_AddOnly(ciId) ==
    /\ expandedAlternates' = expandedAlternates \cup {ciId}
    /\ UNCHANGED <<expandedCI, currentPage, activeFilter>>

toggleAlternateRecommendations(ciId) ==
    /\ expandedAlternates' =
         (IF ciId \in expandedAlternates
          THEN expandedAlternates \ {ciId}
          ELSE expandedAlternates \cup {ciId})
    /\ UNCHANGED <<expandedCI, currentPage, activeFilter>>

ExplorerState ==
    [expandedCI |-> expandedCI, currentPage |-> currentPage,
     expandedAlternates |-> expandedAlternates, activeFilter |-> activeFilter]

NoCall ==
    [op |-> "none", filter |-> "", num |-> 0,
     before |-> [expandedCI |-> Null, currentPage |-> 1,
                 expandedAlternates |-> {}, activeFilter |-> "all"]]

Init ==
    /\ formData = [f \in FieldNames |-> ""]
    /\ connectionStatus = NullStatus
    /\ isConnecting = FALSE
    /\ isScanning = FALSE
    /\ scanResults = NullResults
    /\ scanProgress = 0
    /\ expandedCI = Null
    /\ currentPage = 1
    /\ expandedAlternates = {}
    /\ activeFilter = "all"
    /\ testRequest = "none"
    /\ scanRequest = "none"
    /\ progressInterval = FALSE
    /\ leakedIntervals = 0
    /\ lastCall = NoCall
    /\ showGroupedView = FALSE

(***************************************************************************)
(* Connection form.                                                        *)
(***************************************************************************)
\* handleInputChange that also forgets the result of the connection test.
handleInputChange_ResetsStatus(name, value) ==
    /\ formData' = [formData EXCEPT ![name] = value]
    /\ connectionStatus' = NullStatus
    /\ UNCHANGED <<isConnecting, testRequest>>
    /\ UNCHANGED <<scanResults, lastCall, showGroupedView>>
    /\ UNCHANGED scanVars
    /\ UNCHANGED explorerVars

handleInputChange(name, value) ==
    /\ formData' = [formData EXCEPT ![name] = value]
    /\ UNCHANGED <<connectionStatus, isConnecting, testRequest>>
    /\ UNCHANGED <<scanResults, lastCall, showGroupedView>>
    /\ UNCHANGED scanVars
    /\ UNCHANGED explorerVars

\* An edit of one of the three inputs, to one of `values`.
EditField(values) ==
    \E name \in FieldNames, value \in values : handleInputChange(name, value)

\* testConnection without its check of the three fields.
testConnection_NoFieldCheck ==
    /\ isConnecting' = TRUE
    /\ connectionStatus' = NullStatus
    /\ testRequest' = "sent"
    /\ UNCHANGED <<formData, scanResults, lastCall, showGroupedView>>
    /\ UNCHANGED scanVars
    /\ UNCHANGED explorerVars

\* testConnection up to its await; the button is disabled while isConnecting.
testConnection ==
    /\ IF formData.instanceUrl = "" \/ formData.username = "" \/ formData.password = ""
       THEN /\ connectionStatus' = Status(FALSE, "Please fill in all fields")
            /\ UNCHANGED <<isConnecting, testRequest>>
       ELSE /\ isConnecting' = TRUE
            /\ connectionStatus' = NullStatus
            /\ testRequest' = "sent"
    /\ UNCHANGED <<formData, scanResults, lastCall, showGroupedView>>
    /\ UNCHANGED scanVars
    /\ UNCHANGED explorerVars

ClickTestConnection ==
    /\ ~isConnecting
    /\ testConnection

\* The rest of testConnection: response.ok with result.success, an OK
\* response whose body does not report success, a response that is not OK,
\* or a rejected fetch / unparsable body (catch).
TestOutcomes == {"success", "unsuccessful", "notok", "network"}

\* testConnection deciding on response.ok alone.
TestConnectionSettles_IgnoresBody(outcome) ==
    /\ testRequest = "sent"
    /\ connectionStatus' =
         (CASE outcome \in {"success", "unsuccessful"} ->
                 Status(TRUE, "Connection successful")
            [] outcome = "notok" ->
                 Status(FALSE, "Connection failed. Please check your credentials.")
            [] OTHER -> Status(FALSE, "Network error. Please try again."))
    /\ isConnecting' = FALSE
    /\ testRequest' = "none"
    /\ UNCHANGED <<formData, scanResults, lastCall, showGroupedView>>
    /\ UNCHANGED scanVars
    /\ UNCHANGED explorerVars

TestConnectionSettles(outcome) ==
    /\ testRequest = "sent"
    /\ connectionStatus' =
         (CASE outcome = "success" -> Status(TRUE, "Connection successful")
            [] outcome \in {"unsuccessful", "notok"} ->
                 Status(FALSE, "Connection failed. Please check your credentials.")
            [] OTHER -> Status(FALSE, "Network error. Please try again."))
    /\ isConnecting' = FALSE
    /\ testRequest' = "none"
    /\ UNCHANGED <<formData, scanResults, lastCall, showGroupedView>>
    /\ UNCHANGED scanVars
    /\ UNCHANGED explorerVars

TestConnectionResponse == \E outcome \in TestOutcomes : TestConnectionSettles(outcome)

(***************************************************************************)
(* The scan.                                                               *)
(***************************************************************************)
\* setScanResults(new), followed by the effect on [scanResults].
InstallResults(new) ==
    /\ scanResults' = new
    /\ IF ResultsChanged(scanResults, new)
       THEN ResetOnNewResults
       ELSE UNCHANGED explorerVars

\* scanStaleOwnership without its guard on connectionStatus.
scanStaleOwnership_NoGuard ==
    /\ isScanning' = TRUE
    /\ scanResults' = NullResults
    /\ scanProgress' = 0
    /\ IF ResultsChanged(scanResults, NullResults)
       THEN ResetOnNewResults
       ELSE /\ expandedCI' = Null
            /\ UNCHANGED <<currentPage, expandedAlternates, activeFilter>>
    /\ progressInterval' = TRUE
    /\ scanRequest' = "sent"
    /\ UNCHANGED <<leakedIntervals, lastCall, showGroupedView>>
    /\ UNCHANGED envVars

\* scanStaleOwnership without setScanResults(null).
scanStaleOwnership_KeepResults ==
    /\ IF ~connectionStatus.success
       THEN UNCHANGED <<scanResults, isScanning, scanProgress, scanRequest,
                        progressInterval, expandedCI, currentPage,
                        expandedAlternates, activeFilter>>
       ELSE /\ isScanning' = TRUE
            /\ scanProgress' = 0
            /\ expandedCI' = Null
            /\ UNCHANGED <<scanResults, currentPage, expandedAlternates, activeFilter>>
            /\ progressInterval' = TRUE
            /\ scanRequest' = "sent"
    /\ UNCHANGED <<leakedIntervals, lastCall, showGroupedView>>
    /\ UNCHANGED envVars

\* scanStaleOwnership up to its await fetch(...).
scanStaleOwnership ==
    /\ IF ~connectionStatus.success
       THEN UNCHANGED <<scanResults, isScanning, scanProgress, scanRequest,
                        progressInterval, expandedCI, currentPage,
                        expandedAlternates, activeFilter>>
       ELSE /\ isScanning' = TRUE
            /\ scanResults' = NullResults
            /\ scanProgress' = 0
            /\ IF ResultsChanged(scanResults, NullResults)
               THEN ResetOnNewResults
               ELSE /\ expandedCI' = Null
                    /\ UNCHANGED <<currentPage, expandedAlternates, activeFilter>>
            /\ progressInterval' = TRUE
            /\ scanRequest' = "sent"
    /\ UNCHANGED <<leakedIntervals, lastCall, showGroupedView>>
    /\ UNCHANGED envVars

\* disabled={isScanning || !connectionStatus?.success}
ClickScan ==
    /\ ~isScanning
    /\ connectionStatus.success
    /\ scanStaleOwnership

\* scanStaleOwnership called while its button is disabled for want of a
\* successful connection: the handler's own guard answers.
CallScanWithoutConnection ==
    /\ ~connectionStatus.success
    /\ scanStaleOwnership

IntervalCallback_NoCap(prev) == prev + 15

\* One firing of a setInterval callback: setScanProgress(prev => ...).
IntervalCallback(prev) == IF prev >= 90 THEN 90 ELSE prev + 15

ProgressTick ==
    /\ progressInterval
    /\ scanProgress' = IntervalCallback(scanProgress)
    /\ progressInterval' = (scanProgress < 90)
    /\ UNCHANGED <<isScanning, scanRequest, leakedIntervals, scanResults, lastCall,
                   showGroupedView>>
    /\ UNCHANGED envVars
    /\ UNCHANGED explorerVars

LeakedTick ==
    /\ leakedIntervals > 0
    /\ scanProgress' = IntervalCallback(scanProgress)
    /\ leakedIntervals' = (IF scanProgress >= 90 THEN leakedIntervals - 1 ELSE leakedIntervals)
    /\ UNCHANGED <<isScanning, scanRequest, progressInterval, scanResults, lastCall,
                   showGroupedView>>
    /\ UNCHANGED envVars
    /\ UNCHANGED explorerVars

\* fetch resolved: clearInterval(progressInterval); setScanProgress(100);
\* the function then awaits response.json().
ScanFetchResolves ==
    /\ scanRequest = "sent"
    /\ \E ok \in BOOLEAN : scanRequest' = (IF ok THEN "ok" ELSE "notok")
    /\ progressInterval' = FALSE
    /\ scanProgress' = 100
    /\ UNCHANGED <<isScanning, leakedIntervals, scanResults, lastCall, showGroupedView>>
    /\ UNCHANGED envVars
    /\ UNCHANGED explorerVars

\* fetch rejected: catch and finally run; the interval is not cleared.
ScanFetchRejects ==
    /\ scanRequest = "sent"
    /\ leakedIntervals + (IF progressInterval THEN 1 ELSE 0) <= MaxLeakedIntervals
    /\ InstallResults(ErrorResults("Network error during scan. Please try again."))
    /\ isScanning' = FALSE
    /\ scanRequest' = "none"
    /\ leakedIntervals' = leakedIntervals + (IF progressInterval THEN 1 ELSE 0)
    /\ progressInterval' = FALSE
    /\ UNCHANGED <<scanProgress, lastCall, showGroupedView>>
    /\ UNCHANGED envVars

\* response.json() resolved: the body of an OK response is installed as it
\* is, the body of any other response as { error }.
ScanBodyParsed ==
    /\ \/ /\ scanRequest = "ok"
          /\ \E results \in ScanBodies : InstallResults(results)
       \/ /\ scanRequest = "notok"
          /\ \E message \in ScanErrors : InstallResults(ErrorResults(message))
    /\ isScanning' = FALSE
    /\ scanRequest' = "none"
    /\ UNCHANGED <<scanProgress, progressInterval, leakedIntervals, lastCall, showGroupedView>>
    /\ UNCHANGED envVars

\* The catch without the finally: setIsScanning(false) is lost.
ScanBodyUnparsable_NoFinally ==
    /\ scanRequest \in {"ok", "notok"}
    /\ InstallResults(ErrorResults("Network error during scan. Please try again."))
    /\ scanRequest' = "none"
    /\ UNCHANGED <<isScanning, scanProgress, progressInterval, leakedIntervals, lastCall,
                   showGroupedView>>
    /\ UNCHANGED envVars

\* response.json() rejected: catch and finally run.
ScanBodyUnparsable ==
    /\ scanRequest \in {"ok", "notok"}
    /\ InstallResults(ErrorResults("Network error during scan. Please try again."))
    /\ isScanning' = FALSE
    /\ scanRequest' = "none"
    /\ UNCHANGED <<scanProgress, progressInterval, leakedIntervals, lastCall, showGroupedView>>
    /\ UNCHANGED envVars

(***************************************************************************)
(* The explorer's controls as rendered.                                    *)
(***************************************************************************)
\* {scanResults && ( scanResults.error ? <error card> : <results> )}
ResultsShown ==
    /\ ~scanResults.isNull
    /\ ~(scanResults.hasError /\ scanResults.error # "")

\* The error card, the other branch of scanResults.error ? ... : ...
ErrorShown ==
    /\ ~scanResults.isNull
    /\ scanResults.hasError
    /\ scanResults.error # ""

\* {getFilteredCIs().length > itemsPerPage && ( <pagination controls> )}
PaginationShown ==
    /\ ResultsShown
    /\ Len(getFilteredCIs) > itemsPerPage

\* A handler that writes the filtered list back into the held result.
ExplorerFrame_StoresFiltered ==
    /\ scanResults' = [scanResults EXCEPT !.stale_cis = getFilteredCIs]
    /\ UNCHANGED <<lastCall, showGroupedView>>
    /\ UNCHANGED envVars
    /\ UNCHANGED scanVars

ExplorerFrame ==
    /\ UNCHANGED <<scanResults, lastCall, showGroupedView>>
    /\ UNCHANGED envVars
    /\ UNCHANGED scanVars

ClickSummaryCard ==
    /\ ResultsShown
    /\ \E filter \in CardFilters : setFilter(filter)
    /\ ExplorerFrame

ClickClearFilter ==
    /\ ResultsShown
    /\ activeFilter # "all"
    /\ setFilter("all")
    /\ ExplorerFrame

\* The rows are getPaginatedCIs().map(...), inside
\* scanResults.stale_cis && scanResults.stale_cis.length > 0.
RowsShown ==
    /\ ResultsShown
    /\ scanResults.hasStaleCis
    /\ Len(scanResults.stale_cis) > 0

ClickCI ==
    /\ RowsShown
    /\ LET rows == getPaginatedCIs
       IN  \E k \in DOMAIN rows : toggleCIExpansion(rows[k].ci_id)
    /\ ExplorerFrame

\* The button sits in the expanded details of a row whose CI has at least
\* one recommended owner.
ClickAlternates ==
    /\ RowsShown
    /\ LET rows == getPaginatedCIs
       IN  \E k \in DOMAIN rows :
             /\ expandedCI = rows[k].ci_id
             /\ Len(rows[k].recommended_owners) >= 1
             /\ toggleAlternateRecommendations(rows[k].ci_id)
    /\ ExplorerFrame

\* disabled={currentPage === 1}
ClickPrev ==
    /\ PaginationShown
    /\ currentPage # 1
    /\ goToPrevPage
    /\ ExplorerFrame

\* disabled={currentPage === getTotalPages()}
ClickNext ==
    /\ PaginationShown
    /\ currentPage # getTotalPages
    /\ goToNextPage
    /\ ExplorerFrame

\* The window without its branch for the last pages.
PageNum_NoTailWindow(i) ==
    IF getTotalPages <= 5 THEN i + 1
    ELSE IF currentPage <= 3 THEN i + 1
    ELSE currentPage - 2 + i

\* The page number of the i-th button (i from 0) of the window.
PageNum(i) ==
    IF getTotalPages <= 5 THEN i + 1
    ELSE IF currentPage <= 3 THEN i + 1
    ELSE IF currentPage >= getTotalPages - 2 THEN getTotalPages - 4 + i
    ELSE currentPage - 2 + i

\* The page-number buttons in the order they are rendered: the window of
\* Math.min(5, getTotalPages()) buttons, then the last-page button after
\* the "..." when getTotalPages() > 5 && currentPage < getTotalPages() - 2.
PageButtons ==
    [b \in 1..Min(5, getTotalPages) |-> PageNum(b - 1)]
    \o (IF getTotalPages > 5 /\ currentPage < getTotalPages - 2
        THEN << getTotalPages >>
        ELSE << >>)

ClickPageNumber ==
    /\ PaginationShown
    /\ getTotalPages > 0
    /\ \E i \in 0..(Min(5, getTotalPages) - 1) : goToPage(PageNum(i))
    /\ ExplorerFrame

ClickLastPage ==
    /\ PaginationShown
    /\ getTotalPages > 5
    /\ currentPage < getTotalPages - 2
    /\ goToPage(getTotalPages)
    /\ ExplorerFrame

\* The 'Show/Hide Grouped by Owners' button, in the results branch:
\* {scanResults && scanResults.grouped_by_owners && Array.isArray(...) &&
\*  scanResults.grouped_by_owners.length > 0 && ( <button> )}
GroupedToggleShown ==
    /\ ResultsShown
    /\ Len(scanResults.grouped_by_owners) > 0

\* onClick={() => setShowGroupedView(!showGroupedView)}
toggleGroupedView == showGroupedView' = ~showGroupedView

\* {... grouped_by_owners.length > 0 && showGroupedView && ( <groups> )}
GroupedViewShown ==
    /\ GroupedToggleShown
    /\ showGroupedView

\* The groups restricted to the CIs of the filtered list.
GroupedView_Filtered ==
    IF GroupedViewShown
    THEN [g \in DOMAIN scanResults.grouped_by_owners |->
            [scanResults.grouped_by_owners[g] EXCEPT !.cis_to_assign =
                SelectSeq(@, LAMBDA ci :
                    \E k \in DOMAIN getFilteredCIs : getFilteredCIs[k].ci_id = ci.ci_id)]]
    ELSE << >>

\* scanResults.grouped_by_owners.map(group => ... group.cis_to_assign.map(...)):
\* the groups on screen, each with its CIs.
GroupedView ==
    IF GroupedViewShown THEN scanResults.grouped_by_owners ELSE << >>

(***************************************************************************)
(* The component as the user drives it.  Fields are only filled in, and a  *)
(* scan request is answered (by any status, with any body, parsable or     *)
(* not): this keeps formData and the progress timers out of the product    *)
(* with the explorer's state.  The grouped view's button is left to        *)
(* CallSpec: it writes showGroupedView only, which no handler here reads.  *)
(***************************************************************************)
Next ==
    \/ EditField({"u"})
    \/ ClickTestConnection
    \/ TestConnectionResponse
    \/ ClickScan
    \/ ProgressTick
    \/ ScanFetchResolves
    \/ ScanBodyParsed
    \/ ScanBodyUnparsable
    \/ ClickSummaryCard
    \/ ClickClearFilter
    \/ ClickCI
    \/ ClickAlternates
    \/ ClickPrev
    \/ ClickNext
    \/ ClickPageNumber
    \/ ClickLastPage

Spec == Init /\ [][Next]_vars

(***************************************************************************)
(* The connection test and the scan with every outcome: fields may be      *)
(* emptied again, and a scan request may be rejected, which leaves its     *)
(* progress timer running.  scanStaleOwnership is also called where its    *)
(* button is disabled for want of a connection.  The explorer's controls   *)
(* are left alone.                                                         *)
(***************************************************************************)
ScanNext ==
    \/ EditField({"", "u"})
    \/ ClickTestConnection
    \/ TestConnectionResponse
    \/ ClickScan
    \/ CallScanWithoutConnection
    \/ ProgressTick
    \/ LeakedTick
    \/ ScanFetchResolves
    \/ ScanFetchRejects
    \/ ScanBodyParsed
    \/ ScanBodyUnparsable

ScanSpec == Init /\ [][ScanNext]_vars

\* The same with the browser settling every promise: a fetch that was sent
\* resolves or rejects, and the read of a response body ends or fails.
FairScanSpec ==
    /\ ScanSpec
    /\ WF_vars(ScanFetchResolves \/ ScanFetchRejects)
    /\ WF_vars(ScanBodyParsed \/ ScanBodyUnparsable)

(***************************************************************************)
(* The handlers called directly, with any argument, on a settled           *)
(* component: the contract of each handler as a function of the state it   *)
(* reads.  The initial states are the states in which a scan has settled   *)
(* (or none was run yet) after a successful connection test.               *)
(***************************************************************************)
CallResults ==
    ScanBodies \cup {ErrorResults(m) : m \in ScanErrors} \cup {NullResults}

\* Pages a caller may ask for: one more than any result has.
CallPages == 1..(MaxPages + 1)

\* CIs a caller may name: the first CI of page one and the first of page two.
CallCiIds == {1, itemsPerPage + 1}

CallInit ==
    /\ formData = [f \in FieldNames |-> "u"]
    /\ connectionStatus = Status(TRUE, "Connection successful")
    /\ isConnecting = FALSE
    /\ isScanning = FALSE
    /\ scanResults \in CallResults
    /\ scanProgress = (IF scanResults.isNull THEN 0 ELSE 100)
    /\ expandedCI = Null
    /\ currentPage = 1
    /\ expandedAlternates = {}
    /\ activeFilter = "all"
    /\ testRequest = "none"
    /\ scanRequest = "none"
    /\ progressInterval = FALSE
    /\ leakedIntervals = 0
    /\ lastCall = NoCall
    /\ showGroupedView = FALSE

Called(op, filter, num) ==
    lastCall' = [op |-> op, filter |-> filter, num |-> num, before |-> ExplorerState]

CallFrame ==
    /\ UNCHANGED <<scanResults, showGroupedView>>
    /\ UNCHANGED envVars
    /\ UNCHANGED scanVars

CallSetFilter ==
    /\ \E filter \in FilterCategory : setFilter(filter) /\ Called("setFilter", filter, 0)
    /\ CallFrame

CallGoToPage ==
    /\ \E page \in CallPages : goToPage(page) /\ Called("goToPage", "", page)
    /\ CallFrame

CallGoToNextPage ==
    /\ goToNextPage
    /\ Called("goToNextPage", "", 0)
    /\ CallFrame

CallGoToPrevPage ==
    /\ goToPrevPage
    /\ Called("goToPrevPage", "", 0)
    /\ CallFrame

CallToggleCIExpansion ==
    /\ \E ciId \in CallCiIds : toggleCIExpansion(ciId) /\ Called("toggleCIExpansion", "", ciId)
    /\ CallFrame

CallToggleAlternateRecommendations ==
    /\ \E ciId \in CallCiIds :
         /\ toggleAlternateRecommendations(ciId)
         /\ Called("toggleAlternateRecommendations", "", ciId)
    /\ CallFrame

CallToggleGroupedView ==
    /\ toggleGroupedView
    /\ Called("toggleGroupedView", "", 0)
    /\ UNCHANGED scanResults
    /\ UNCHANGED envVars
    /\ UNCHANGED scanVars
    /\ UNCHANGED explorerVars

CallNext ==
    \/ CallSetFilter
    \/ CallGoToPage
    \/ CallGoToNextPage
    \/ CallGoToPrevPage
    \/ CallToggleCIExpansion
    \/ CallToggleAlternateRecommendations
    \/ CallToggleGroupedView

CallSpec == CallInit /\ [][CallNext]_vars

(***************************************************************************)
(* The pager as the user drives it on a held result: the filter cards and  *)
(* the pagination controls, on results of up to MaxPagerPages pages.  Row  *)
(* clicks are left out: they change neither the filter nor the page.       *)
(***************************************************************************)
PagerResults ==
    {StaleResults((p - 1) * itemsPerPage + 1) : p \in 2..MaxPagerPages}

PagerInit ==
    /\ formData = [f \in FieldNames |-> "u"]
    /\ connectionStatus = Status(TRUE, "Connection successful")
    /\ isConnecting = FALSE
    /\ isScanning = FALSE
    /\ scanResults \in PagerResults
    /\ scanProgress = 100
    /\ expandedCI = Null
    /\ currentPage = 1
    /\ expandedAlternates = {}
    /\ activeFilter = "all"
    /\ testRequest = "none"
    /\ scanRequest = "none"
    /\ progressInterval = FALSE
    /\ leakedIntervals = 0
    /\ lastCall = NoCall
    /\ showGroupedView = FALSE

PagerNext ==
    \/ ClickSummaryCard
    \/ ClickClearFilter
    \/ ClickPrev
    \/ ClickNext
    \/ ClickPageNumber
    \/ ClickLastPage

PagerSpec == PagerInit /\ [][PagerNext]_vars

(***************************************************************************)
(* Properties.                                                             *)
(***************************************************************************)
\* The CI with this ci_id is a row of the displayed page.
OnDisplayedPage(ciId) ==
    LET rows == getPaginatedCIs
    IN  \E k \in DOMAIN rows : rows[k].ci_id = ciId

NavigationClick == ClickPrev \/ ClickNext \/ ClickPageNumber \/ ClickLastPage

\* C1: a page navigation (previous, next, a page number, the last page) that
\* changes currentPage leaves expandedCI null and expandedAlternates empty.
C1_NavigationClearsSelection ==
    [][ (NavigationClick /\ currentPage' # currentPage)
          => (expandedCI' = Null /\ expandedAlternates' = {}) ]_vars

\* C2: after setFilter(c), for any category c and from any state, the active
\* filter is c, currentPage is 1, expandedCI is null and expandedAlternates
\* is empty.
C2_SetFilterResets ==
    lastCall.op = "setFilter" =>
        /\ activeFilter = lastCall.filter
        /\ currentPage = 1
        /\ expandedCI = Null
        /\ expandedAlternates = {}

\* setFilter('medium') was called on page 3 with a CI expanded and an
\* alternates panel open.
C2_Witness ==
    /\ lastCall.op = "setFilter"
    /\ lastCall.filter = "medium"
    /\ lastCall.before.currentPage = 3
    /\ lastCall.before.expandedCI # Null
    /\ lastCall.before.expandedAlternates # {}
    /\ lastCall.before.activeFilter = "high"

\* C3: every step that replaces scanResults (the clearing at scan start, a
\* success body, an error value) ends with currentPage 1, activeFilter
\* 'all', expandedCI null and expandedAlternates empty.
C3_NewResultsReset ==
    [][ (scanResults' # scanResults \/ isScanning' # isScanning)
          => /\ currentPage' = 1
             /\ activeFilter' = "all"
             /\ expandedCI' = Null
             /\ expandedAlternates' = {} ]_vars

\* A scan was started and has cleared the results it replaced.
C3_Witness ==
    /\ isScanning
    /\ scanResults.isNull
    /\ scanProgress = 0
    /\ currentPage = 1
    /\ activeFilter = "all"

\* C4: every ciId in expandedAlternates is a row of the displayed page.
C4_NoStaleAlternates ==
    \A ciId \in expandedAlternates : OnDisplayedPage(ciId)

\* C5: expandedCI is null or the ci_id of a row of the displayed page.
C5_NoStaleExpansion ==
    expandedCI = Null \/ OnDisplayedPage(expandedCI)

\* A CI of the second page of the High filter is expanded.
C5_Witness ==
    /\ expandedCI # Null
    /\ activeFilter = "high"
    /\ currentPage = 2
    /\ OnDisplayedPage(expandedCI)

\* C6: a requested page beyond totalPages is served as page
\* max(1, totalPages).
C6_OutOfRangePageClamped ==
    (lastCall.op = "goToPage" /\ lastCall.num > getTotalPages) =>
        getPaginatedCIs = PageSlice(getFilteredCIs, Max(1, getTotalPages))

\* C7: 1 <= currentPage <= max(1, totalPages), and the displayed page is
\* not empty when the filtered list is not.
C7_CurrentPageInRange ==
    /\ 1 <= currentPage
    /\ currentPage <= Max(1, getTotalPages)
    /\ (Len(getFilteredCIs) > 0 => Len(getPaginatedCIs) > 0)

\* The last page of a filtered list of three pages is displayed.
C7_Witness ==
    /\ activeFilter = "high"
    /\ getTotalPages = 3
    /\ currentPage = 3

\* C8: goToNextPage leaves currentPage as it is when currentPage >=
\* totalPages and adds one otherwise; goToPrevPage leaves it as it is at 1
\* and subtracts one otherwise.
C8_NextPrevBounded ==
    /\ lastCall.op = "goToNextPage" =>
         currentPage = (IF lastCall.before.currentPage >= getTotalPages
                        THEN lastCall.before.currentPage
                        ELSE lastCall.before.currentPage + 1)
    /\ lastCall.op = "goToPrevPage" =>
         currentPage = (IF lastCall.before.currentPage = 1
                        THEN 1
                        ELSE lastCall.before.currentPage - 1)

\* goToNextPage was called on the last page of a list of several pages.
C8_Witness ==
    /\ lastCall.op = "goToNextPage"
    /\ getTotalPages >= 2
    /\ lastCall.before.currentPage = getTotalPages
    /\ currentPage = getTotalPages

RECURSIVE ConcatPages(_, _)
\* The page slices 1..n of items, one after the other.
ConcatPages(items, n) ==
    IF n = 0 THEN << >> ELSE ConcatPages(items, n - 1) \o PageSlice(items, n)

\* C9: every page slice has at most itemsPerPage items, and the slices of
\* pages 1..totalPages, concatenated in order, are the filtered list.
C9_PagesPartition ==
    LET items == getFilteredCIs
    IN  /\ \A p \in 1..getTotalPages : Len(PageSlice(items, p)) <= itemsPerPage
        /\ ConcatPages(items, getTotalPages) = items

\* A filtered list of three pages, the last one partly filled.
C9_Witness ==
    /\ activeFilter = "high"
    /\ getTotalPages = 3
    /\ Len(getFilteredCIs) % itemsPerPage # 0

\* C10: totalPages is the least t with t * itemsPerPage >= the length of
\* the filtered list, and 0 when no result or no stale_cis array is held.
C10_TotalPagesIsCeiling ==
    LET n == Len(getFilteredCIs)
        t == getTotalPages
    IN  /\ t >= 0
        /\ t * itemsPerPage >= n
        /\ (t > 0 => (t - 1) * itemsPerPage < n)
        /\ ((scanResults.isNull \/ ~scanResults.hasStaleCis) => t = 0)

\* A filtered list of exactly two full pages.
C10_Witness ==
    /\ Len(getFilteredCIs) = 2 * itemsPerPage
    /\ getTotalPages = 2

\* The spellings of a category that differ from it in letter case only.
Spellings(category) ==
    CASE category = "critical" -> {"critical", "Critical", "CRITICAL"}
      [] category = "high"     -> {"high", "High", "HIGH"}
      [] category = "medium"   -> {"medium", "Medium", "MEDIUM"}
      [] category = "low"      -> {"low", "Low", "LOW"}
      [] OTHER                 -> {}

\* The positions of the held stale_cis whose risk_level is the category in
\* some letter case.  The CI at position i of a payload has ci_id i.
MatchingPositions(category) ==
    {i \in DOMAIN scanResults.stale_cis :
        scanResults.stale_cis[i].risk_level \in Spellings(category)}

\* C11: with 'all' the filtered list is the held stale_cis; with a specific
\* category it holds exactly the CIs whose risk_level is that category in
\* any letter case, each once, in the order they have in stale_cis.
C11_FilterIsMatchingSubsequence ==
    LET held     == scanResults.stale_cis
        filtered == getFilteredCIs
        matching == MatchingPositions(activeFilter)
    IN  /\ (activeFilter = "all" /\ scanResults.hasStaleCis) => filtered = held
        /\ activeFilter # "all" =>
              /\ Len(filtered) = Cardinality(matching)
              /\ \A k \in DOMAIN filtered :
                    /\ filtered[k].ci_id \in matching
                    /\ filtered[k] = held[filtered[k].ci_id]
                    /\ (k > 1 => filtered[k - 1].ci_id < filtered[k].ci_id)

\* The High filter on the largest result: CIs spelled "High" and "HIGH"
\* alternate in the filtered list, and the others are left out.
C11_Witness ==
    /\ activeFilter = "high"
    /\ Len(scanResults.stale_cis) = (MaxPages - 1) * itemsPerPage + 1
    /\ Len(getFilteredCIs) > 2 * itemsPerPage
    /\ getFilteredCIs[1].risk_level = "High"
    /\ getFilteredCIs[2].risk_level = "HIGH"

\* The risk levels that are one of the four categories, in any letter case.
KnownLevels == UNION {Spellings(c) : c \in FilterCategory \ {"all"}}

\* C12: under a specific category no CI of the filtered list has a
\* risk_level that is missing, empty or none of the four levels (under
\* 'all' these CIs stay where they are), and the filtered list is empty
\* when no result is held or its stale_cis is empty or absent.
C12_FilterIsTotal ==
    LET held     == scanResults.stale_cis
        filtered == getFilteredCIs
    IN  /\ activeFilter # "all" =>
              \A k \in DOMAIN filtered : filtered[k].risk_level \in KnownLevels
        /\ (activeFilter = "all" /\ scanResults.hasStaleCis) =>
              \A i \in DOMAIN held :
                  held[i].risk_level \notin KnownLevels =>
                      (i \in DOMAIN filtered /\ filtered[i] = held[i])
        /\ (scanResults.isNull \/ ~scanResults.hasStaleCis \/ Len(held) = 0) =>
              filtered = << >>

\* The Low filter on a result that has CIs of level Low, CIs without a
\* level and CIs of an unknown level.
C12_Witness ==
    /\ activeFilter = "low"
    /\ Len(getFilteredCIs) > 0
    /\ \E i \in DOMAIN scanResults.stale_cis : scanResults.stale_cis[i].risk_level = ""
    /\ \E i \in DOMAIN scanResults.stale_cis :
          scanResults.stale_cis[i].risk_level = "Unknown"

\* The number of held CIs that match the active category.
MatchCount ==
    IF activeFilter = "all" THEN Len(scanResults.stale_cis)
    ELSE Cardinality(MatchingPositions(activeFilter))

\* C13: totalPages is the number of pages of itemsPerPage that the CIs
\* matching the active category fill, and the displayed page holds only
\* matching CIs, as many as that page of the matching CIs has.
C13_PaginationOverFiltered ==
    LET n    == MatchCount
        t    == getTotalPages
        rows == getPaginatedCIs
    IN  /\ t * itemsPerPage >= n
        /\ (IF n = 0 THEN t = 0 ELSE (t - 1) * itemsPerPage < n)
        /\ Len(rows) = Max(0, Min(itemsPerPage, n - (currentPage - 1) * itemsPerPage))
        /\ activeFilter # "all" =>
              \A k \in DOMAIN rows : rows[k].risk_level \in Spellings(activeFilter)

\* A result of more than one page whose High CIs fill less than one page.
C13_Witness ==
    /\ activeFilter = "high"
    /\ Len(scanResults.stale_cis) > itemsPerPage
    /\ getTotalPages = 1
    /\ currentPage = 1
    /\ Len(getPaginatedCIs) = MatchCount
    /\ MatchCount < itemsPerPage

\* C14: toggleCIExpansion(id) leaves expandedCI null when it was id and id
\* otherwise; a second call with the same id, right after the first, brings
\* back the value held before the first exactly when that value was id or
\* null.
C14_ToggleCIExpansion ==
    [][ lastCall'.op = "toggleCIExpansion" =>
          /\ expandedCI' = (IF expandedCI = lastCall'.num THEN Null ELSE lastCall'.num)
          /\ (lastCall.op = "toggleCIExpansion" /\ lastCall.num = lastCall'.num) =>
                ((expandedCI' = lastCall.before.expandedCI)
                   <=> (lastCall.before.expandedCI \in {Null, lastCall.num})) ]_vars

\* toggleCIExpansion of the CI that was expanded has collapsed it.
C14_Witness ==
    /\ lastCall.op = "toggleCIExpansion"
    /\ lastCall.num = 1
    /\ lastCall.before.expandedCI = 1
    /\ expandedCI = Null

\* C15: toggleAlternateRecommendations(id) makes id a member of
\* expandedAlternates when it was not and removes it when it was, keeps the
\* membership of every other ciId, and a second call with the same id, right
\* after the first, brings back the set held before the first.
C15_ToggleAlternatesFlipsOne ==
    [][ lastCall'.op = "toggleAlternateRecommendations" =>
          /\ (lastCall'.num \in expandedAlternates')
                <=> (lastCall'.num \notin expandedAlternates)
          /\ expandedAlternates' \ {lastCall'.num} = expandedAlternates \ {lastCall'.num}
          /\ (/\ lastCall.op = "toggleAlternateRecommendations"
              /\ lastCall.num = lastCall'.num) =>
                expandedAlternates' = lastCall.before.expandedAlternates ]_vars

\* With the panels of CIs 1 and 51 open, toggleAlternateRecommendations(1)
\* has closed the panel of CI 1 only.
C15_Witness ==
    /\ lastCall.op = "toggleAlternateRecommendations"
    /\ lastCall.num = 1
    /\ lastCall.before.expandedAlternates = {1, itemsPerPage + 1}
    /\ expandedAlternates = {itemsPerPage + 1}

\* C16: toggleCIExpansion leaves expandedAlternates, currentPage,
\* activeFilter and scanResults as they are, and
\* toggleAlternateRecommendations leaves expandedCI, currentPage,
\* activeFilter and scanResults as they are.
C16_TogglesTouchSelectionOnly ==
    [][ /\ lastCall'.op = "toggleCIExpansion" =>
              UNCHANGED <<expandedAlternates, currentPage, activeFilter, scanResults>>
        /\ lastCall'.op = "toggleAlternateRecommendations" =>
              UNCHANGED <<expandedCI, currentPage, activeFilter, scanResults>> ]_vars

\* toggleCIExpansion(51) was called on page 2 of the High filter with the
\* alternates panel of CI 1 open, and all of that is still so.
C16_Witness ==
    /\ lastCall.op = "toggleCIExpansion"
    /\ lastCall.num = itemsPerPage + 1
    /\ expandedCI = itemsPerPage + 1
    /\ lastCall.before.expandedAlternates = {1}
    /\ expandedAlternates = {1}
    /\ lastCall.before.currentPage = 2
    /\ currentPage = 2
    /\ lastCall.before.activeFilter = "high"
    /\ activeFilter = "high"
    /\ Len(scanResults.stale_cis) > itemsPerPage

\* C17: scanResults changes only in the step that starts a scan, which
\* clears it, and in the step that ends one, which replaces the null by the
\* value received; no filter change, page navigation or toggle changes it.
C17_ResultsChangeOnlyByScan ==
    [][ scanResults' # scanResults =>
          \/ (~isScanning /\ isScanning' /\ scanResults'.isNull)
          \/ (isScanning /\ ~isScanning' /\ scanResults.isNull
                 /\ ~scanResults'.isNull) ]_vars

\* The result of 101 CIs is held as it was received, after a filter change,
\* a page navigation, an expansion and an alternates toggle.
C17_Witness ==
    /\ scanResults = StaleResults(2 * itemsPerPage + 1)
    /\ activeFilter = "high"
    /\ currentPage = 2
    /\ expandedCI # Null
    /\ expandedAlternates # {}

\* C18: when the held value carries an error field, whatever it holds, the
\* error card is on screen and no results branch, CI row, pagination
\* control or grouped view is.
C18_ErrorPayloadShowsNoData ==
    (~scanResults.isNull /\ scanResults.hasError) =>
        /\ ErrorShown
        /\ ~ResultsShown
        /\ ~RowsShown
        /\ ~PaginationShown
        /\ ~GroupedToggleShown
        /\ ~GroupedViewShown

\* C19: while a scan is in flight (from scanStaleOwnership's start to the
\* step that handles its response) scanResults is null.
C19_NoResultWhileScanning ==
    (isScanning \/ scanRequest # "none") => scanResults.isNull

\* A scan is in flight after an earlier scan ended with an error value:
\* the earlier scan's request was rejected and its timer is still running.
C19_Witness ==
    /\ isScanning
    /\ scanRequest = "ok"
    /\ leakedIntervals > 0
    /\ scanResults.isNull

\* C20: while scanResults and showGroupedView stay as they are, the groups
\* on screen and the CIs in each group stay the same, whatever happens to
\* activeFilter and currentPage.
C20_GroupedViewIgnoresFilterAndPage ==
    [][ (scanResults' = scanResults /\ showGroupedView' = showGroupedView)
          => GroupedView' = GroupedView ]_vars

\* Both groups are on screen, with their High CIs, after setFilter
\* ('critical') and goToPage(2).
C20_Witness ==
    /\ GroupedViewShown
    /\ lastCall.op = "goToPage"
    /\ Len(GroupedView) = 2
    /\ GroupedView[1].cis_to_assign[1].risk_level = "High"
    /\ activeFilter = "critical"
    /\ currentPage = 2

\* The places <<g, k>> of the displayed groups that hold the CI ciId.
PlacesInGroups(ciId) ==
    {gk \in UNION {{<<g, k>> : k \in DOMAIN GroupedView[g].cis_to_assign} :
                    g \in DOMAIN GroupedView} :
        GroupedView[gk[1]].cis_to_assign[gk[2]].ci_id = ciId}

RECURSIVE SumTotalCis(_, _)
\* total_cis of the first n groups, added up.
SumTotalCis(groups, n) ==
    IF n = 0 THEN 0 ELSE SumTotalCis(groups, n - 1) + groups[n].total_cis

\* C21: when the grouped view is on screen, every CI of stale_cis with a
\* recommended owner is in exactly one group, the group of its first
\* recommended owner; a CI without recommended owners is in no group; and
\* the groups' total_cis add up to the number of CIs with recommended
\* owners.
C21_GroupedViewFollowsStaleCIs ==
    GroupedViewShown =>
        LET held == scanResults.stale_cis
            withOwner == {i \in DOMAIN held : Len(held[i].recommended_owners) >= 1}
        IN  /\ \A i \in withOwner :
                  /\ Cardinality(PlacesInGroups(held[i].ci_id)) = 1
                  /\ \A gk \in PlacesInGroups(held[i].ci_id) :
                        GroupedView[gk[1]].username
                            = held[i].recommended_owners[1].username
            /\ \A i \in DOMAIN held \ withOwner :
                  PlacesInGroups(held[i].ci_id) = {}
            /\ SumTotalCis(GroupedView, Len(GroupedView)) = Cardinality(withOwner)

\* A control on screen sets the filter to category c: a summary card that
\* carries it, or the Clear Filter button.
SelectFilter(c) ==
    (ClickSummaryCard \/ ClickClearFilter) /\ activeFilter' = c

\* C22: while a result is displayed, each of the five categories can be
\* made the active filter by a control on screen.
C22_EveryCategorySelectable ==
    ResultsShown => \A c \in FilterCategory : ENABLED SelectFilter(c)

\* C23: whenever the pagination controls are shown, every page-number
\* button targets a page in 1..totalPages, no two buttons target the same
\* page, and one of the buttons targets the current page.
C23_PageButtonsValid ==
    PaginationShown =>
        /\ \A b \in DOMAIN PageButtons :
              1 <= PageButtons[b] /\ PageButtons[b] <= getTotalPages
        /\ \A b, c \in DOMAIN PageButtons :
              b # c => PageButtons[b] # PageButtons[c]
        /\ \E b \in DOMAIN PageButtons : PageButtons[b] = currentPage

\* A page in the middle of a long list: the window is centred on the
\* current page and the last-page button is rendered after it.
C23_Witness ==
    /\ PaginationShown
    /\ getTotalPages > 5
    /\ currentPage > 3
    /\ currentPage < getTotalPages - 2
    /\ Len(PageButtons) = 6

\* The values scanStaleOwnership can leave in scanResults.
SettledResults ==
    ScanBodies \cup {ErrorResults(m) : m \in ScanErrors}
        \cup {ErrorResults("Network error during scan. Please try again.")}

\* C24: isScanning is true exactly while a scan request is being handled;
\* the step that ends the handling leaves isScanning false and scanResults
\* holding the received body or an { error } value; and every scan that
\* was started gets there.
C24_ScanSettles ==
    /\ [](isScanning <=> scanRequest # "none")
    /\ [][ scanRequest # "none" /\ scanRequest' = "none" =>
              /\ ~isScanning'
              /\ scanResults.isNull
              /\ scanResults' \in SettledResults ]_vars
    /\ (isScanning ~> (~isScanning /\ ~scanResults.isNull))

\* A scan whose request was rejected has settled with the network error.
C24_Witness ==
    /\ ~isScanning
    /\ scanRequest = "none"
    /\ leakedIntervals > 0
    /\ scanResults = ErrorResults("Network error during scan. Please try again.")

\* C25: a scan request is sent only in a step taken with connectionStatus
\* a success and no scan request in flight; and scanStaleOwnership called
\* without a successful connection sends nothing and leaves isScanning,
\* scanResults, scanProgress and expandedCI as they are.
C25_ScanOnlyWhenConnected ==
    [][ /\ (scanRequest' = "sent" /\ scanRequest # "sent") =>
              /\ connectionStatus.success
              /\ scanRequest = "none"
              /\ ~isScanning
        /\ (scanStaleOwnership /\ ~connectionStatus.success) =>
              UNCHANGED <<scanRequest, isScanning, scanResults, scanProgress,
                          expandedCI>> ]_vars

\* A scan request has just been sent, with the connection a success.
C25_Witness ==
    /\ isScanning
    /\ scanRequest = "sent"
    /\ scanProgress = 0
    /\ connectionStatus.success

\* C26: while no scan is running scanProgress does not change, and a
\* progress of 100 changes only in the step that starts the next scan.
C26_TimersEndWithScan ==
    [][ /\ (~isScanning /\ ~isScanning') => scanProgress' = scanProgress
        /\ (scanProgress = 100 /\ scanProgress' # 100) => (~isScanning /\ isScanning')
      ]_vars

ProgressValues == {0, 15, 30, 45, 60, 75, 90, 100}

\* C27: scanProgress is always one of 0, 15, ..., 90, 100; from the start of
\* a scan to the arrival of its response it is at most 90 and never
\* decreases; it becomes 100 only in the step in which a response arrives.
C27_ProgressBounded ==
    /\ [](scanProgress \in ProgressValues)
    /\ [](scanRequest = "sent" => scanProgress <= 90)
    /\ [][ /\ (scanRequest = "sent" /\ scanRequest' = "sent")
               => scanProgress' >= scanProgress
           /\ (scanProgress' = 100 /\ scanProgress # 100)
               => (scanRequest = "sent" /\ scanRequest' \in {"ok", "notok"})
         ]_vars

C27_Witness ==
    /\ scanRequest = "sent"
    /\ scanProgress = 90
    /\ leakedIntervals > 0
    /\ ~progressInterval

\* C28: while a connection test is in flight connectionStatus is null,
\* isConnecting is true and the scan button does nothing; the test ends only
\* by its response, which leaves isConnecting false and a status that is a
\* success exactly when the response was OK and its body reported success.
C28_TestConnectionProtocol ==
    /\ [](testRequest = "sent"
            => connectionStatus.isNull /\ isConnecting /\ ~ENABLED ClickScan)
    /\ [](testRequest = "none" => ~isConnecting)
    /\ [][ /\ (testRequest = "sent" /\ testRequest' # "sent")
               => TestConnectionResponse
           /\ \A outcome \in TestOutcomes :
                 TestConnectionSettles(outcome)
                   => /\ ~isConnecting'
                      /\ ~connectionStatus'.isNull
                      /\ connectionStatus'.success <=> (outcome = "success")
         ]_vars

C28_Witness ==
    /\ ~isConnecting
    /\ testRequest = "none"
    /\ connectionStatus =
         Status(FALSE, "Connection failed. Please check your credentials.")
    /\ ~scanResults.isNull

SomeFieldEmpty == \E name \in FieldNames : formData[name] = ""

\* C29: with instanceUrl, username or password empty, testConnection sends
\* no request, sets connectionStatus to the failure 'Please fill in all
\* fields' and leaves isConnecting and scanResults as they are.
C29_IncompleteCredentialsRejected ==
    [][ /\ (testRequest' = "sent" /\ testRequest # "sent") => ~SomeFieldEmpty
        /\ (ClickTestConnection /\ SomeFieldEmpty)
              => /\ connectionStatus' = Status(FALSE, "Please fill in all fields")
                 /\ UNCHANGED <<testRequest, isConnecting, scanResults>>
      ]_vars

C29_Witness ==
    /\ SomeFieldEmpty
    /\ connectionStatus = Status(FALSE, "Please fill in all fields")
    /\ testRequest = "none"
    /\ ~isConnecting
    /\ ~scanResults.isNull

\* C30: a step that changes formData changes one field of it and leaves
\* connectionStatus, scanResults and the explorer state as they are; a
\* successful connection status therefore enables the scan button whatever
\* the fields hold now.
C30_EditChangesOneField ==
    /\ [][ formData' # formData
             => /\ \E name \in FieldNames :
                      formData' = [formData EXCEPT ![name] = formData'[name]]
                /\ UNCHANGED <<connectionStatus, scanResults, showGroupedView>>
                /\ UNCHANGED explorerVars
                /\ UNCHANGED scanVars
         ]_vars
    /\ [](connectionStatus.success /\ ~isScanning => ENABLED ClickScan)

C30_Witness ==
    /\ connectionStatus.success
    /\ SomeFieldEmpty
    /\ scanResults.isNull
    /\ ~isScanning
    /\ ENABLED ClickScan

====
